---- MODULE Spec2Model ----
(***************************************************************************)
(* A model of backend/scraper.py: the Saitama weather scraper.             *)
(*                                                                         *)
(* Text is a sequence of characters.  Characters outside ASCII are written *)
(* with ASCII names:                                                       *)
(*   "ki","on"   the two characters of the temperature keyword (U+6C17,    *)
(*               U+6E29)                                                   *)
(*   "kaze"      the wind character (U+98A8)                               *)
(*   "ji","ten"  the two characters of the "as of" marker (U+6642, U+70B9) *)
(*   "mi","ri"   the two katakana of the millimetre keyword (U+30DF,       *)
(*               U+30EA)                                                   *)
(*   "degC"      the degree-Celsius sign (U+2103)                          *)
(*   "minus"     MINUS SIGN (U+2212), "endash" EN DASH (U+2013),           *)
(*   "fwminus"   FULLWIDTH HYPHEN-MINUS (U+FF0D)                           *)
(*   "<"         a piece of markup between two text nodes of the page      *)
(* Times are seconds since midnight of day 0; microseconds are not         *)
(* modelled.                                                               *)
(***************************************************************************)
EXTENDS Integers, Sequences, FiniteSets, TLC

DigitSeq == <<"0", "1", "2", "3", "4", "5", "6", "7", "8", "9">>

Digits == {DigitSeq[i] : i \in 1..Len(DigitSeq)}

Alphabet ==
    Digits \cup {".", "-", "minus", "endash", "fwminus", " ", ":", "m", "/", "s",
                 "N", "A", "T", "ki", "on", "kaze", "ji", "ten", "mi", "ri", "degC", "<"}

(***************************************************************************)
(* Regular expressions.  A pattern is a sequence of items; an item is a    *)
(* character class with a greedy repetition lo..hi (hi < 0: no upper       *)
(* limit).  MatchFrom is the backtracking matcher of Python's re: an item  *)
(* first takes as many characters as it can and gives them back one at a   *)
(* time while the rest of the pattern fails.  A match is the sequence of   *)
(* the positions where each item starts, followed by the position after    *)
(* the match; <<>> is no match.                                            *)
(***************************************************************************)
Item(cls, lo, hi) == [cls |-> cls, lo |-> lo, hi |-> hi]

One(cls) == Item(cls, 1, 1)

Opt(cls) == Item(cls, 0, 1)

Star(cls) == Item(cls, 0, -1)

Plus(cls) == Item(cls, 1, -1)

NotDigit == Alphabet \ Digits

Space == {" "}

RECURSIVE RunLen(_, _, _)
RunLen(t, pos, cls) ==
    IF pos <= Len(t) /\ t[pos] \in cls THEN 1 + RunLen(t, pos + 1, cls) ELSE 0

\* The element of a one-element set.  A value written {e} and bound as its
\* element is computed once, however often it is used.
The(S) == CHOOSE v \in S : TRUE

RECURSIVE MatchFrom(_, _, _, _)
RECURSIVE TryCount(_, _, _, _, _)
MatchFrom(pat, k, t, pos) ==
    IF k > Len(pat)
    THEN <<pos>>
    ELSE LET avail == RunLen(t, pos, pat[k].cls)
         IN TryCount(pat, k, t, pos,
                     IF pat[k].hi < 0 \/ avail < pat[k].hi THEN avail ELSE pat[k].hi)

TryCount(pat, k, t, pos, n) ==
    IF n < pat[k].lo
    THEN <<>>
    ELSE The({IF r # <<>> THEN <<pos>> \o r ELSE TryCount(pat, k, t, pos, n - 1) :
                 r \in {MatchFrom(pat, k + 1, t, pos + n)}})

RECURSIVE SearchFrom(_, _, _)
SearchFrom(pat, t, start) ==
    IF start > Len(t) + 1
    THEN <<>>
    ELSE The({IF r # <<>> THEN r ELSE SearchFrom(pat, t, start + 1) :
                 r \in {MatchFrom(pat, 1, t, start)}})

\* re.search(pat, t): the leftmost match.
Search(pat, t) == SearchFrom(pat, t, 1)

\* match.group: the text taken by items a..b of the pattern.
Group(t, r, a, b) == SubSeq(t, r[a], r[b + 1] - 1)

\* The text of group 1 when it spans items a..b, <<>> when nothing matched
\* (every group of this program holds at least one digit).
Group1(pat, t, a, b) ==
    The({IF r = <<>> THEN <<>> ELSE Group(t, r, a, b) : r \in {Search(pat, t)}})

\* 'literal' in text
Contains(t, lit) == Search([i \in 1..Len(lit) |-> One({lit[i]})], t) # <<>>

(***************************************************************************)
(* The patterns of scrape_weather_data.                                    *)
(***************************************************************************)
\* r'(\d{1,2}):(\d{2})\s*<ji><ten>'
TimePattern ==
    <<Item(Digits, 1, 2), One({":"}), Item(Digits, 2, 2), Star(Space),
      One({"ji"}), One({"ten"})>>

\* r'<ki><on>[^\d]*(-?\d+\.?\d*)'
TempKeywordPattern ==
    <<One({"ki"}), One({"on"}), Star(NotDigit),
      Opt({"-"}), Plus(Digits), Opt({"."}), Star(Digits)>>

\* r'(-?\d+\.\d+)'
TempDecimalPattern == <<Opt({"-"}), Plus(Digits), One({"."}), Plus(Digits)>>

\* r'(\d+\.?\d*)\s*m/s'
WindPattern ==
    <<Plus(Digits), Opt({"."}), Star(Digits), Star(Space),
      One({"m"}), One({"/"}), One({"s"})>>

\* r'(-?\d+\.?\d*)'
BlockTempPattern == <<Opt({"-"}), Plus(Digits), Opt({"."}), Star(Digits)>>

\* r'(\d+\.?\d*)\s*m'
BlockWindPattern == <<Plus(Digits), Opt({"."}), Star(Digits), Star(Space), One({"m"})>>

\* r'(\d+\.?\d*)\s*<mi><ri>'
PrecipPattern ==
    <<Plus(Digits), Opt({"."}), Star(Digits), Star(Space), One({"mi"}), One({"ri"})>>

(***************************************************************************)
(* Values of the program.                                                  *)
(***************************************************************************)
\* "N/A", the default of temperature and wind (lines 54-55).
NA == <<"N", "/", "A">>

\* "0", the default of precipitation (line 56).
PrecipDefault == <<"0">>

\* SCRAPE_INTERVAL, in seconds (line 19).
SCRAPE_INTERVAL == 600

\* A datetime is <<day, hour, minute, second>>; the day number stands for the
\* civil date.
FromSeconds(n) == <<n \div 86400, (n % 86400) \div 3600, (n % 3600) \div 60, n % 60>>

\* int(text) of a run of digits.
RECURSIVE IntOf(_)
IntOf(ds) ==
    IF ds = <<>>
    THEN 0
    ELSE 10 * IntOf(SubSeq(ds, 1, Len(ds) - 1))
         + (CHOOSE i \in 1..Len(DigitSeq) : DigitSeq[i] = ds[Len(ds)]) - 1

\* datetime.replace(hour=h, minute=m, second=0, microsecond=0) raises
\* ValueError unless the hour is in 0..23 and the minute in 0..59.
ReplaceRaises(h, m) == h > 23 \/ m > 59

Replace(dt, h, m) == <<dt[1], h, m, 0>>

RECURSIVE Decimal(_)
Decimal(n) == IF n < 10 THEN <<DigitSeq[n + 1]>> ELSE Decimal(n \div 10) \o <<DigitSeq[(n % 10) + 1]>>

TwoDigits(n) == <<DigitSeq[(n \div 10) + 1], DigitSeq[(n % 10) + 1]>>

\* datetime.isoformat(): <date>T<hh>:<mm>:<ss>.
IsoFormat(dt) ==
    Decimal(dt[1]) \o <<"T">> \o TwoDigits(dt[2]) \o <<":">> \o TwoDigits(dt[3])
        \o <<":">> \o TwoDigits(dt[4])

(***************************************************************************)
(* The page.  obs holds the text of the first element of class             *)
(* observedValue (no element: <<>>), blocks the texts of the elements of   *)
(* class obs_block in document order, tail the text after them.            *)
(***************************************************************************)
RECURSIVE Flatten(_)
Flatten(texts) ==
    IF texts = <<>> THEN <<>> ELSE <<"<">> \o Head(texts) \o Flatten(Tail(texts))

\* response.text: the text nodes with the markup between them.
HtmlContent(page) == Flatten(page.obs) \o Flatten(page.blocks) \o <<"<">> \o page.tail

(***************************************************************************)
(* scrape_weather_data, after the fetch (lines 51-145).                    *)
(***************************************************************************)
\* A symmetric trigger, which line 103 is not: either value still "N/A".
Method2TriggeredOnAnyMissing(temperature, wind) == temperature = NA \/ wind = NA

\* Line 103: Method 2 runs when temperature is still "N/A".
Method2Triggered(temperature, wind) == temperature = NA

\* A scan without the keyword test of line 109.
AnyBlockIsTemperatureBlock(block_text) == TRUE

\* Line 109: the block is scanned for a temperature when it holds the keyword.
IsTemperatureBlock(block_text) == Contains(block_text, <<"ki", "on">>)

\* Line 116.
IsWindBlock(block_text) ==
    Contains(block_text, <<"kaze">>) \/ Contains(block_text, <<"m", "/", "s">>)

\* Lines 105-120: the loop over the blocks; a later block overwrites an
\* earlier one.
RECURSIVE ScanBlocks(_, _, _)
ScanBlocks(blocks, i, st) ==
    IF i > Len(blocks)
    THEN st
    ELSE The({ScanBlocks(blocks, i + 1,
                         [temperature |-> IF t # <<>> THEN t ELSE st.temperature,
                          wind |-> IF w # <<>> THEN w ELSE st.wind]) :
                 t \in {IF IsTemperatureBlock(blocks[i])
                        THEN Group1(BlockTempPattern, blocks[i], 1, 4)
                        ELSE <<>>},
                 w \in {IF IsWindBlock(blocks[i])
                        THEN Group1(BlockWindPattern, blocks[i], 1, 3)
                        ELSE <<>>}})

\* Lines 73-80: the time of day before the "as of" marker.
ObservationTime(obs_text) ==
    The({IF time_match = <<>>
         THEN [found |-> FALSE, hour |-> 0, minute |-> 0]
         ELSE [found |-> TRUE,
               hour |-> IntOf(Group(obs_text, time_match, 1, 1)),
               minute |-> IntOf(Group(obs_text, time_match, 3, 3))] :
            time_match \in {Search(TimePattern, obs_text)}})

\* Lines 82-100: Method 1, on the text of the observation section.
Method1(obs_text) ==
    The({[temperature |-> IF keyword_temp # <<>> THEN keyword_temp
                          ELSE IF decimal_temp # <<>> THEN decimal_temp
                          ELSE NA,
          wind |-> IF wind_match # <<>> THEN wind_match ELSE NA] :
            keyword_temp \in {Group1(TempKeywordPattern, obs_text, 4, 7)},
            decimal_temp \in {Group1(TempDecimalPattern, obs_text, 1, 4)},
            wind_match \in {Group1(WindPattern, obs_text, 1, 3)}})

\* Lines 102-120: Method 2, over the obs_block elements.
Method2(blocks, m1) ==
    IF Method2Triggered(m1.temperature, m1.wind) THEN ScanBlocks(blocks, 1, m1) ELSE m1

\* Lines 125-129: the first number before the millimetre keyword, anywhere
\* in the page.
Precipitation(html_content) ==
    The({IF precip_match # <<>> THEN precip_match ELSE PrecipDefault :
            precip_match \in {Group1(PrecipPattern, html_content, 1, 3)}})

\* Lines 131-135.
Timestamp(time, today, t_end) ==
    IF time.found
    THEN IsoFormat(Replace(today, time.hour, time.minute))
    ELSE IsoFormat(FromSeconds(t_end))

\* Without an observation section (line 69) the defaults of lines 54-57
\* stand after Method 1.
Defaults == [temperature |-> NA, wind |-> NA]

NoTime == [found |-> FALSE, hour |-> 0, minute |-> 0]

\* What lines 63-129 take from the page: the time of day, the values after
\* Method 1, the values after Method 2, the precipitation.
PageFields(page) ==
    The({The({[time |-> time, m1 |-> m1, final |-> final,
               precipitation |-> Precipitation(HtmlContent(page))] :
                 final \in {Method2(page.blocks, m1)}}) :
            time \in {IF page.obs # <<>> THEN ObservationTime(page.obs[1]) ELSE NoTime},
            m1 \in {IF page.obs # <<>> THEN Method1(page.obs[1]) ELSE Defaults}})

\* The dictionary scrape_weather_data returns (lines 140-145).
Reading(x) ==
    [temperature |-> x.temperature, wind |-> x.wind,
     precipitation |-> x.precipitation, created_at |-> x.created_at]

NoData == [temperature |-> <<>>, wind |-> <<>>, precipitation |-> <<>>, created_at |-> <<>>]

NoTrace ==
    [raised |-> FALSE, temperature |-> <<>>, wind |-> <<>>, precipitation |-> <<>>,
     created_at |-> <<>>, today |-> <<>>, time_found |-> FALSE, obs_hour |-> 0,
     obs_minute |-> 0, m1_temperature |-> <<>>, m1_wind |-> <<>>, method2 |-> FALSE]

(***************************************************************************)
(* Inputs: the pages the site may serve, the environment, the clock.       *)
(***************************************************************************)
\* The texts made of at most n of the chunks.
RECURSIVE ChunkTexts(_, _)
ChunkTexts(chunks, n) ==
    IF n = 0
    THEN {<<>>}
    ELSE LET shorter == ChunkTexts(chunks, n - 1)
         IN shorter \cup {s \o c : s \in shorter, c \in chunks}

MaxObsChunks == 2

ObsChunks ==
    {<<"ki", "on">>, <<" ">>, <<"-">>, <<"minus">>, <<"3", ".", "2">>,
     <<"m", "/", "s">>, <<"2", "3", ":", "5", "0", "ji", "ten">>}

\* Observation texts beyond the chunk texts: a negative temperature written
\* with each minus glyph, the page of the specification's end-to-end
\* example, times of day.
ExtraObsTexts ==
    {<<"ki", "on", " ", "-", "3", ".", "2", "degC">>,
     <<"ki", "on", " ", "minus", "3", ".", "2", "degC">>,
     <<"ki", "on", " ", "endash", "3", ".", "2", "degC">>,
     <<"ki", "on", " ", "fwminus", "3", ".", "2", "degC">>,
     <<"ki", "on", " ", "1", ".", "6", "degC", " ", "kaze", " ", "0", ".", "6",
       "m", "/", "s", " ", "2", "2", ":", "4", "0", "ji", "ten">>,
     <<"ki", "on", " ", "1", ".", "6", "degC", "1", "3", ":", "4", "5", " ", "ji", "ten">>,
     <<"2", "5", ":", "0", "0", "ji", "ten">>}

ObsTexts == ChunkTexts(ObsChunks, MaxObsChunks) \cup ExtraObsTexts

BlockTexts ==
    {<<"ki", "on", "-", "4", ".", "1", "degC">>,
     <<"kaze", "0", ".", "6", " ", "m", "/", "s">>,
     <<"7", "m">>}

BlockLists ==
    {<<>>} \cup {<<a>> : a \in BlockTexts} \cup {<<a, b>> : a, b \in BlockTexts}

TailTexts == {<<>>, <<"0", ".", "5", "mi", "ri", " ", "2", "mi", "ri">>}

ExtractPages ==
    {[obs |-> o, blocks |-> b, tail |-> t] :
        o \in {<<>>} \cup {<<x>> : x \in ObsTexts}, b \in BlockLists, t \in TailTexts}

\* Day 1 at 00:15:30 and at 14:00:00.
RefInstants == {86400 + 15 * 60 + 30, 86400 + 14 * 3600}

EmptyPage == [obs |-> <<>>, blocks |-> <<>>, tail |-> <<>>]

\* The pages of the continuous runs: the end-to-end example, a page whose
\* layout has drifted, a page with an impossible time of day.
LoopPages ==
    {[obs |-> <<<<"ki", "on", " ", "1", ".", "6", "degC", " ", "kaze", " ", "0", ".", "6",
                  "m", "/", "s", " ", "2", "2", ":", "4", "0", "ji", "ten">>>>,
      blocks |-> <<>>, tail |-> <<"0", ".", "5", "mi", "ri">>],
     EmptyPage,
     [obs |-> <<<<"2", "5", ":", "0", "0", "ji", "ten">>>>, blocks |-> <<>>, tail |-> <<>>]}

\* PageFields, tabulated over the pages of the model.
PageTable == [page \in LoopPages \cup ExtractPages |-> PageFields(page)]

\* Lines 53-145: the locals of scrape_weather_data at its return.  t_start is
\* the clock at line 60, t_end the clock at line 135; raised tells that line
\* 79 raised ValueError.
ScrapeWeatherData(page, t_start, t_end) ==
    The({[raised |-> f.time.found /\ ReplaceRaises(f.time.hour, f.time.minute),
          temperature |-> f.final.temperature,
          wind |-> f.final.wind,
          precipitation |-> f.precipitation,
          created_at |-> Timestamp(f.time, FromSeconds(t_start), t_end),
          today |-> FromSeconds(t_start),
          time_found |-> f.time.found,
          obs_hour |-> f.time.hour,
          obs_minute |-> f.time.minute,
          m1_temperature |-> f.m1.temperature,
          m1_wind |-> f.m1.wind,
          method2 |-> Method2Triggered(f.m1.temperature, f.m1.wind)] :
            f \in {PageTable[page]}})

\* Day 1 at 22:45:10.
StartInstants == {86400 + 22 * 3600 + 45 * 60 + 10}

\* What requests.get yields: an exception of the transport, or a response
\* with a status of one of these classes (a 3xx is a redirect that requests
\* does not follow, such as 304).
FetchOutcomes == {"transport_error", "2xx", "3xx", "4xx", "5xx"}

\* response.raise_for_status() (line 45) raises HTTPError for a status in
\* 400..599 and for no other.
RaiseForStatus(status) == status \in {"4xx", "5xx"}

\* The seconds a scrape may take between its two readings of the clock.
ElapsedChoices == {0, 1}

\* The iterations of main's loop a behaviour holds.
MaxIter == 3

VARIABLES
    pc,            \* where main is
    env,           \* whether SUPABASE_URL and SUPABASE_KEY are set and not empty
    now,           \* the clock, in seconds
    iter,          \* the iterations of the loop started
    response,      \* what requests.get returned in this iteration
    weather_data,  \* what scrape_weather_data returned in this iteration
    xtrace,        \* the locals of scrape_weather_data at its return
    success,       \* what run_scraper_once returned: "True", "False", "raised", "none"
    runlog,        \* the calls and reports of this iteration, in order
    store,         \* the rows of table weather_saitama, in insertion order
    sigint         \* whether a KeyboardInterrupt was delivered

vars == <<pc, env, now, iter, response, weather_data, xtrace, success, runlog, store, sigint>>

NoResponse == [status |-> "none", page |-> EmptyPage]

Start(e, t) ==
    /\ pc = "loop"
    /\ env = e
    /\ now = t
    /\ iter = 0
    /\ response = NoResponse
    /\ weather_data = NoData
    /\ xtrace = NoTrace
    /\ success = "none"
    /\ runlog = <<>>
    /\ store = <<>>
    /\ sigint = FALSE

Init == \E e \in [url : BOOLEAN, key : BOOLEAN], t \in StartInstants : Start(e, t)

(***************************************************************************)
(* run_scraper_once and main.                                              *)
(***************************************************************************)
\* A handler that leaves the loop, which lines 222-225 do not.
ExceptionHandlerBreaks == "stopped"

\* Where main goes from "except Exception" (lines 222-225): to its sleep.
ExceptionHandlerPc == "sleep_err"

\* A test that needs both variables missing, which line 179 does not.
CredentialsMissingBoth(e) == ~e.url /\ ~e.key

\* Lines 26 and 179: either variable is unset or empty.
CredentialsMissing(e) == ~e.url \/ ~e.key

\* A handler that returns True, which line 191 does not.
InsertFailureReportsSuccess == "True"

\* What run_scraper_once returns when the insert raised (line 191).
InsertFailureResult == "False"

\* Lines 205 and 173, 44-45: main calls run_scraper_once, which calls
\* scrape_weather_data, which fetches the page.
Fetch ==
    /\ pc = "loop"
    /\ iter < MaxIter
    /\ \E status \in FetchOutcomes, page \in LoopPages :
          LET raises == status = "transport_error" \/ RaiseForStatus(status)
          IN /\ raises => page = EmptyPage
             /\ response' = [status |-> status, page |-> page]
             /\ pc' = IF raises THEN ExceptionHandlerPc ELSE "fetched"
             /\ success' = IF raises THEN "raised" ELSE "none"
    /\ iter' = iter + 1
    /\ runlog' = <<"fetch">>
    /\ weather_data' = NoData
    /\ xtrace' = NoTrace
    /\ UNCHANGED <<env, now, store, sigint>>

\* Lines 47-145: the rest of scrape_weather_data.
Scrape ==
    /\ pc = "fetched"
    /\ \E elapsed \in ElapsedChoices :
          \E x \in {ScrapeWeatherData(response.page, now, now + elapsed)} :
             /\ now' = now + elapsed
             /\ IF x.raised
                THEN /\ pc' = ExceptionHandlerPc
                     /\ success' = "raised"
                     /\ weather_data' = NoData
                     /\ xtrace' = [NoTrace EXCEPT !.raised = TRUE, !.today = x.today,
                                                  !.time_found = TRUE,
                                                  !.obs_hour = x.obs_hour,
                                                  !.obs_minute = x.obs_minute]
                ELSE /\ pc' = "scraped"
                     /\ success' = "none"
                     /\ weather_data' = Reading(x)
                     /\ xtrace' = x
    /\ UNCHANGED <<env, iter, response, runlog, store, sigint>>

\* Lines 176-182, and 209-217 of main when the credentials are missing.
CheckCredentials ==
    /\ pc = "scraped"
    /\ IF CredentialsMissing(env)
       THEN /\ runlog' = Append(runlog, "warning")
            /\ success' = "False"
            /\ pc' = "sleep"
       ELSE /\ pc' = "inserting"
            /\ UNCHANGED <<runlog, success>>
    /\ UNCHANGED <<env, now, iter, response, weather_data, xtrace, store, sigint>>

\* Lines 185-191 with insert_weather_data (148-162) and get_supabase_client
\* (22-28), then 209-217 of main.  The store call succeeds or raises.
Insert ==
    /\ pc = "inserting"
    /\ \E ok \in BOOLEAN :
          IF CredentialsMissing(env)
          THEN \* get_supabase_client raises ValueError: no call reaches the store
               /\ runlog' = Append(runlog, "error")
               /\ success' = InsertFailureResult
               /\ store' = store
          ELSE IF ok
          THEN /\ runlog' = Append(runlog, "insert")
               /\ success' = "True"
               /\ store' = Append(store, weather_data)
          ELSE /\ runlog' = runlog \o <<"insert", "error">>
               /\ success' = InsertFailureResult
               /\ store' = store
    /\ pc' = "sleep"
    /\ UNCHANGED <<env, now, iter, response, weather_data, xtrace, sigint>>

\* Line 217: time.sleep(SCRAPE_INTERVAL) returns.
WakeUp ==
    /\ pc = "sleep"
    /\ pc' = "loop"
    /\ now' = now + SCRAPE_INTERVAL
    /\ UNCHANGED <<env, iter, response, weather_data, xtrace, success, runlog, store, sigint>>

\* Line 225: the sleep of the exception handler returns.
WakeUpAfterError ==
    /\ pc = "sleep_err"
    /\ pc' = "loop"
    /\ now' = now + SCRAPE_INTERVAL
    /\ UNCHANGED <<env, iter, response, weather_data, xtrace, success, runlog, store, sigint>>

\* Lines 219-221: a KeyboardInterrupt inside the try block ends the loop.  In
\* the sleep of the exception handler it is outside the try block and ends
\* the process through main.
Interrupt ==
    /\ pc \in {"loop", "fetched", "scraped", "inserting", "sleep", "sleep_err"}
    /\ pc' = IF pc = "sleep_err" THEN "killed" ELSE "stopped"
    /\ sigint' = TRUE
    /\ UNCHANGED <<env, now, iter, response, weather_data, xtrace, success, runlog, store>>

Step == Fetch \/ Scrape \/ CheckCredentials \/ Insert \/ WakeUp \/ WakeUpAfterError

Next == Step \/ Interrupt

Spec == Init /\ [][Next]_vars

\* The calls main makes return: a sleep ends, a request or a store call
\* answers or raises.
FairSpec == Spec /\ WF_vars(Step)

(***************************************************************************)
(* scrape_weather_data alone, on every page of ExtractPages.               *)
(***************************************************************************)
InitExtract ==
    /\ pc = "fetched"
    /\ env = [url |-> TRUE, key |-> TRUE]
    /\ now \in RefInstants
    /\ iter = 1
    /\ \E page \in ExtractPages : response = [status |-> "2xx", page |-> page]
    /\ weather_data = NoData
    /\ xtrace = NoTrace
    /\ success = "none"
    /\ runlog = <<"fetch">>
    /\ store = <<>>
    /\ sigint = FALSE

SpecExtract == InitExtract /\ [][Scrape]_vars

(***************************************************************************)
(* The claims.                                                             *)
(***************************************************************************)
Range(f) == {f[i] : i \in DOMAIN f}

RunEnded == pc \in {"sleep", "sleep_err"}

\* C1: recording is idempotent per observation timestamp: an invocation of
\* the recorder for a reading whose created_at is already in the store
\* writes nothing, so only one of two successive invocations inserts.
C1_IdempotentRecording ==
    [][(/\ pc = "inserting"
        /\ \E i \in DOMAIN store : store[i].created_at = weather_data.created_at)
       => store' = store]_vars

\* C2 as stated: no run whose credentials are missing holds a fetch.
C2_NoFetchWithoutCredentials ==
    (~env.url \/ ~env.key) => "fetch" \notin Range(runlog)

\* C2 as amended: with a credential missing the page is fetched and parsed
\* first, the warning follows, no call reaches the store, and the run
\* returns False.
C2_FetchThenWarning ==
    (~env.url \/ ~env.key) =>
        /\ store = <<>>
        /\ "insert" \notin Range(runlog)
        /\ "warning" \in Range(runlog) => runlog = <<"fetch", "warning">>
        /\ pc = "sleep" => (runlog = <<"fetch", "warning">> /\ success = "False")
        /\ pc # "inserting"

C2_Witness ==
    /\ env.url /\ ~env.key
    /\ pc = "sleep"
    /\ runlog = <<"fetch", "warning">>
    /\ weather_data.temperature = <<"1", ".", "6">>

\* The exit status of the process: main returns after the break (status 0);
\* a KeyboardInterrupt in the handler's sleep leaves main as an exception.
ExitStatus ==
    IF pc = "stopped" THEN "success" ELSE IF pc = "killed" THEN "failure" ELSE "running"

FetchRaised == response.status = "transport_error" \/ RaiseForStatus(response.status)

\* C3 as stated: a run that inserted exits with the success status, a run
\* whose fetch, extraction or store call failed exits with a failure status.
C3_ProcessExitContract ==
    RunEnded =>
        /\ success = "True" => ExitStatus = "success"
        /\ (success = "raised" \/ "error" \in Range(runlog)) => ExitStatus = "failure"

\* C3 as amended: no run ends the process.  run_scraper_once returns True
\* exactly when the insert call returned, and then the row is in the store;
\* it returns False when the store call raised; a fetch or an extraction
\* that raised leaves it as an exception, without a store call; main then
\* sleeps.
C3_RunStatus ==
    RunEnded =>
        /\ ExitStatus = "running"
        /\ success = "True" <=> runlog = <<"fetch", "insert">>
        /\ success = "True" =>
              (pc = "sleep" /\ store # <<>> /\ store[Len(store)] = weather_data)
        /\ "error" \in Range(runlog) => (success = "False" /\ pc = "sleep")
        /\ (FetchRaised \/ xtrace.raised) <=> success = "raised"
        /\ success = "raised" => (pc = "sleep_err" /\ runlog = <<"fetch">>)

C3_Witness ==
    /\ pc = "sleep"
    /\ runlog = <<"fetch", "insert", "error">>
    /\ success = "False"
    /\ store = <<>>
    /\ iter = 1

\* C4: the resolved timestamp has the captured hour and minute and zero
\* seconds, on the day before the reference date when the captured hour is
\* more than 12 hours ahead of the reference hour, on the reference date
\* otherwise.
C4_DayRollover ==
    (pc = "scraped" /\ xtrace.time_found) =>
        weather_data.created_at =
            IsoFormat(<<IF xtrace.obs_hour > xtrace.today[2] + 12
                        THEN xtrace.today[1] - 1
                        ELSE xtrace.today[1],
                        xtrace.obs_hour, xtrace.obs_minute, 0>>)

MinusGlyphs == {"-", "minus", "endash", "fwminus"}

\* The observation text is the keyword, a minus glyph and 3.2, with an
\* optional space before the number and the unit or nothing after it.
NegativeAfterKeyword(t) ==
    \E g \in MinusGlyphs, sp \in {<<>>, <<" ">>}, unit \in {<<>>, <<"degC">>} :
        t = <<"ki", "on">> \o sp \o <<g, "3", ".", "2">> \o unit

\* C5: a negative temperature after the keyword keeps its sign, whichever
\* minus glyph the page uses.
C5_NegativeTemperatureKeepsSign ==
    (/\ pc = "scraped"
     /\ response.page.obs # <<>>
     /\ NegativeAfterKeyword(response.page.obs[1]))
    => weather_data.temperature = <<"-", "3", ".", "2">>

HasDigit(t) == \E i \in DOMAIN t : t[i] \in Digits

HasAt(t, i, lit) == i + Len(lit) - 1 <= Len(t) /\ SubSeq(t, i, i + Len(lit) - 1) = lit

HasLiteral(t, lit) == \E i \in DOMAIN t : HasAt(t, i, lit)

\* A number (digits, or digits and a point, or digits, a point and digits)
\* ends in t right before optional spaces and the unit.
HasNumberBefore(t, unit) ==
    \E e \in 2..Len(t), k \in 2..Len(t) :
        /\ e <= k
        /\ \A j \in e..(k - 1) : t[j] = " "
        /\ HasAt(t, k, unit)
        /\ \/ t[e - 1] \in Digits
           \/ e > 2 /\ t[e - 1] = "." /\ t[e - 2] \in Digits

\* C6 as stated: without the primary marker every field is the sentinel or
\* the default and the timestamp is the reference instant.
C6_NoMarkerAllDefaults ==
    (pc = "scraped" /\ response.page.obs = <<>>) =>
        /\ weather_data.temperature = NA
        /\ weather_data.wind = NA
        /\ weather_data.precipitation = PrecipDefault
        /\ weather_data.created_at = IsoFormat(xtrace.today)

\* C6 as amended: without the primary marker no observation time is parsed
\* and the timestamp is the clock at the end of the extraction; the scan of
\* the obs_block elements runs, so that temperature is the sentinel exactly
\* when no block holds the keyword and a digit, and wind exactly when no
\* block holding the wind character or m/s has a number before an m;
\* precipitation is the default when the page has no number before the
\* millimetre keyword, and a number otherwise.
C6_NoMarkerFallback ==
    (pc = "scraped" /\ response.page.obs = <<>>) =>
        LET blocks == response.page.blocks
        IN /\ xtrace.method2 /\ ~xtrace.time_found
           /\ weather_data.created_at = IsoFormat(FromSeconds(now))
           /\ weather_data.temperature = NA <=>
                 ~\E i \in DOMAIN blocks :
                     HasLiteral(blocks[i], <<"ki", "on">>) /\ HasDigit(blocks[i])
           /\ weather_data.wind = NA <=>
                 ~\E i \in DOMAIN blocks :
                     /\ HasLiteral(blocks[i], <<"kaze">>)
                           \/ HasLiteral(blocks[i], <<"m", "/", "s">>)
                     /\ HasNumberBefore(blocks[i], <<"m">>)
           /\ IF HasNumberBefore(HtmlContent(response.page), <<"mi", "ri">>)
              THEN HasDigit(weather_data.precipitation)
                   /\ HasLiteral(HtmlContent(response.page),
                                 weather_data.precipitation)
              ELSE weather_data.precipitation = PrecipDefault

C6_Witness ==
    /\ pc = "scraped"
    /\ response.page.obs = <<>>
    /\ weather_data.temperature = <<"-", "4", ".", "1">>
    /\ weather_data.wind = <<"0", ".", "6">>
    /\ weather_data.precipitation = <<"0", ".", "5">>
    /\ weather_data.created_at # IsoFormat(xtrace.today)

\* C7: serialized runs never leave two records with the same timestamp.
C7_SerializedRunsNoDuplicate ==
    \A i, j \in DOMAIN store : i # j => store[i].created_at # store[j].created_at

\* C8: the scan of the obs_block elements runs if and only if temperature
\* is the sentinel after the primary region; when the primary region gave a
\* temperature and no wind, the scan does not run and wind stays the
\* sentinel, whatever the blocks hold.
C8_AsymmetricFallback ==
    pc = "scraped" =>
        /\ xtrace.method2 <=> xtrace.m1_temperature = NA
        /\ (xtrace.m1_temperature # NA /\ xtrace.m1_wind = NA) =>
              (weather_data.wind = NA /\ weather_data.temperature = xtrace.m1_temperature)
        /\ xtrace.m1_temperature # NA =>
              (weather_data.wind = xtrace.m1_wind)

C8_Witness ==
    /\ pc = "scraped"
    /\ xtrace.m1_temperature = <<"3", ".", "2">>
    /\ xtrace.m1_wind = NA
    /\ \E i \in DOMAIN response.page.blocks :
          /\ HasLiteral(response.page.blocks[i], <<"kaze">>)
          /\ HasNumberBefore(response.page.blocks[i], <<"m">>)
    /\ weather_data.wind = NA

\* C9: a fetch that met a transport error or a status outside 2xx gives no
\* reading and no store call in its run.
C9_FailedFetchNoStoreCall ==
    response.status \in {"transport_error", "3xx", "4xx", "5xx"} =>
        /\ weather_data = NoData
        /\ "insert" \notin Range(runlog)

====
